---- MODULE Spec2Model ----
(***************************************************************************)
(* The resource manager of tasks/task1/src/resource_manager/resmgr.c: one  *)
(* device (buffer, access level, counters, mutex) served to clients over a *)
(* stream socket, one handler thread per connection.                       *)
(*                                                                         *)
(* Text is modelled byte by byte: a string is a sequence of byte values.   *)
(***************************************************************************)
EXTENDS Integers, Sequences, FiniteSets, TLC

----------------------------------------------------------------------------
(* Program constants *)

DEVICE_BUFFER_SIZE == 1024

\* char buf[1024] of client_thread
RECV_BUF_SIZE == 1024

\* char command[64] of handle_command
COMMAND_SIZE == 64

(* Bounds of the model *)

\* lines sent by all clients together
MaxSends == 3

\* lines sent by the client that does not wait for its responses
MaxStreamSends == 2

\* bytes a client has written that may not have arrived when recv returns
MaxLag == 1

\* length of the over-long DATA argument beyond DEVICE_BUFFER_SIZE - 1
LongExtra == 7

\* lines sent by all clients together while the server starts and shuts down
MaxLifeSends == 2

\* accepted connections whose pthread_create fails
MaxSpawnFail == 1

\* lines sent by all clients together when a client has stopped reading
MaxStallSends == 3

\* responses a connection's socket buffers hold for a client that does not
\* read them, before send blocks
SockBufResponses == 1

\* update threads of mutex.c (NumThreads there), passes of their inner loop,
\* and rounds of their outer loop before main's sleep ends
MaxUpdaters == 2
MaxInner == 2
MaxRounds == 2

\* values the producer of prodcons.c produces before main's sleep ends
MaxProduct == 2

Clients == {1, 2}

----------------------------------------------------------------------------
(* Byte strings *)

KW_READ == <<82,69,65,68>>
KW_DATA == <<68,65,84,65>>
KW_CLEAR == <<67,76,69,65,82>>
KW_STATUS == <<83,84,65,84,85,83>>
KW_SET_ACCESS == <<83,69,84,95,65,67,67,69,83,83>>
KW_HELP == <<72,69,76,80>>
STR_READ_ONLY == <<114,101,97,100,45,111,110,108,121>>
STR_READ_WRITE == <<114,101,97,100,45,119,114,105,116,101>>

\* the welcome message device_init copies into the buffer (UTF-8, 69 bytes)
WELCOME == <<208,148,208,190,208,177,209,128,208,190,32,208,191,208,190,208,
             182,208,176,208,187,208,190,208,178,208,176,209,130,209,140,32,
             208,178,32,208,188,208,181,208,189,208,181,208,180,208,182,208,
             181,209,128,32,209,128,208,181,209,129,209,131,209,128,209,129,
             208,190,208,178,33>>

\* what the clients of the model send
TXT_AB == <<97,98>>
TXT_C == <<99>>
TXT_FOO == <<70,79,79>>
TXT_LOWER_READ == <<114,101,97,100>>
TXT_LONG == [i \in 1..(DEVICE_BUFFER_SIZE - 1 + LongExtra) |-> 97]

Min2(a, b) == IF a <= b THEN a ELSE b

Bytes == 0..255

\* whitespace as isspace() in the C locale sees it
Space == {9, 10, 11, 12, 13, 32}
NotSpace == Bytes \ Space

\* the terminator of a C string, and the byte %[^\n] stops at
Nul == {0}
Newline == {10}

\* the first index j in from..Len(s) with s[j] in stops, else Len(s)+1
FirstStop(s, from, stops) ==
    CHOOSE j \in from..(Len(s) + 1) :
        /\ (j = Len(s) + 1 \/ s[j] \in stops)
        /\ \A k \in from..(j - 1) : s[k] \notin stops

\* the C string held in an array: the bytes before the first NUL
CStr(a) == SubSeq(a, 1, FirstStop(a, 1, Nul) - 1)

\* what "%.*s" with precision n prints of an array
CStrN(a, n) == LET s == CStr(a) IN SubSeq(s, 1, Min2(n, Len(s)))

----------------------------------------------------------------------------
(* client_thread's treatment of what recv returned, and sscanf *)

\* buf[n] = 0; a final \n is cut; a \r as the byte before the last is cut
StripLine(b) ==
    LET n == Len(b)
        s1 == IF b[n] = 10 THEN SubSeq(b, 1, n - 1) ELSE b
    IN  IF n >= 2 /\ b[n - 1] = 13 THEN SubSeq(b, 1, n - 2) ELSE s1

\* sscanf(cmd, "%63s %1023[^\n]", command, argument): the number of
\* conversions (-1 for EOF before the first), and what they stored
Sscanf(cmd) ==
    LET c0 == FirstStop(cmd, 1, NotSpace)
        c1 == Min2(FirstStop(cmd, c0, Space), c0 + COMMAND_SIZE - 1)
        a0 == FirstStop(cmd, c1, NotSpace)
        a1 == Min2(FirstStop(cmd, a0, Newline), a0 + DEVICE_BUFFER_SIZE - 1)
    IN  IF c0 > Len(cmd)
        THEN [rc |-> -1, command |-> <<>>, argument |-> <<>>]
        ELSE IF a0 > Len(cmd)
        THEN [rc |-> 1, command |-> SubSeq(cmd, c0, c1 - 1), argument |-> <<>>]
        ELSE [rc |-> 2, command |-> SubSeq(cmd, c0, c1 - 1),
              argument |-> SubSeq(cmd, a0, a1 - 1)]

----------------------------------------------------------------------------
(* The lines the clients of the model send, each ended by \n *)

LineText(l) ==
    CASE l = "READ" -> KW_READ
      [] l = "DATA_AB" -> KW_DATA \o <<32>> \o TXT_AB
      [] l = "DATA_C" -> KW_DATA \o <<32>> \o TXT_C
      [] l = "DATA_LONG" -> KW_DATA \o <<32>> \o TXT_LONG
      [] l = "DATA_NOARG" -> KW_DATA
      [] l = "CLEAR" -> KW_CLEAR
      [] l = "STATUS" -> KW_STATUS
      [] l = "SET_RO" -> KW_SET_ACCESS \o <<32>> \o STR_READ_ONLY
      [] l = "SET_RW" -> KW_SET_ACCESS \o <<32>> \o STR_READ_WRITE
      [] l = "SET_NOARG" -> KW_SET_ACCESS
      [] l = "HELP" -> KW_HELP
      [] l = "FOO" -> TXT_FOO
      [] l = "LOWER_READ" -> TXT_LOWER_READ
      [] l = "EMPTY" -> <<>>

LineBytes(l) == LineText(l) \o <<10>>

\* the keyword and the argument a line carries, as the protocol defines them
LineIsData(l) == l \in {"DATA_AB", "DATA_C", "DATA_LONG"}
LineArg(l) ==
    CASE l = "DATA_AB" -> TXT_AB
      [] l = "DATA_C" -> TXT_C
      [] l = "DATA_LONG" -> TXT_LONG
      [] OTHER -> <<>>

Menu(c) ==
    IF c = 1
    THEN {"DATA_AB", "READ", "CLEAR", "SET_RO", "DATA_LONG", "EMPTY"}
    ELSE {"DATA_C", "READ", "STATUS", "SET_RW", "SET_NOARG", "HELP", "FOO",
          "LOWER_READ"}

----------------------------------------------------------------------------
(* State *)

VARIABLES
    device,        \* the device_t: buffer, buffer_size, access_level, counters, mutex
    pc,            \* where each connection's thread is
    chan,          \* bytes a client has written that its handler has not yet received
    command,       \* handle_command's command[] of each thread
    argument,      \* handle_command's argument[] of each thread
    last,          \* the last response written to each client
    nresp,         \* responses written to each client after the greeting
    nsent,         \* history: how many lines each client has sent
    lastLine,      \* history: the line each client sent last
    lastWritten,   \* history: the argument of a client's completed DATA write
    lastMutBy,     \* history: the client whose DATA or CLEAR changed the buffer last
    clearSeen,     \* history: a client's CLEAR was answered, no DATA write since
    lastAccessSet, \* history: the mode of the last SET_ACCESS that succeeded
    main,          \* where main is
    listen_fd,     \* the listening socket: "none" (-1), "open", "closed"
    path,          \* EXAMPLE_SOCK_PATH in the file system: "absent", "stale", "bound"
    peer,          \* each client's end of its connection: "open", "closed"
    sig,           \* the signal on_signal was first entered for, or "none"
    sigpc,         \* where on_signal is: "none", "unlink", "exit"
    dropped,       \* history: clients whose connection pthread_create failed for
    status,        \* the values the STATUS branch has read so far, per thread
    stopped,       \* -1, or how many responses a client had when it stopped reading
    outside,       \* history: a thread has stored to a byte outside its buf[]
    mtx,           \* the program of mutex.c
    pcs            \* the program of prodcons.c

vars == <<device, pc, chan, command, argument, last, nresp, nsent, lastLine,
          lastWritten, lastMutBy, clearSeen, lastAccessSet, main, listen_fd,
          path, peer, sig, sigpc, dropped, status, stopped, outside, mtx,
          pcs>>

sent == <<nsent, lastLine>>
hist == <<lastWritten, lastMutBy, clearSeen, lastAccessSet>>

\* the signal handler's state
sigs == <<sig, sigpc, listen_fd>>

\* main, the socket path, the clients' ends, the dropped connections
proc == <<main, path, peer, dropped>>

\* what the server's steps, but for recv, leave alone
others == <<stopped, outside, mtx, pcs>>

\* no completed write of this client stands
None == <<-1>>

Resp(kind, text, nums) == [kind |-> kind, text |-> text, nums |-> nums]

NoOwner == 0

\* static device_t device: zero-initialised before main runs
device_static ==
    [buffer |-> <<>>, buffer_size |-> 0, read_pos |-> 0, write_pos |-> 0,
     access_level |-> 0, read_count |-> 0, write_count |-> 0,
     mutex |-> NoOwner]

\* the initialisation that stops after its memset
device_memset_only == device_static

\* device_init: memset 0, access_level = 1, the welcome message and its length.
\* buffer holds the array's cells up to the last one written; the cells after
\* it are the zeros memset left.
device_init ==
    [buffer |-> WELCOME, buffer_size |-> Len(WELCOME), read_pos |-> 0,
     write_pos |-> 0, access_level |-> 1, read_count |-> 0, write_count |-> 0,
     mutex |-> NoOwner]

Updaters == 1..MaxUpdaters

\* mutex.c when main has assigned var1 = var2 = 0 and is about to create the
\* threads
mtx_start ==
    [var1 |-> 0, var2 |-> 0, mutex |-> NoOwner, running |-> 1,
     pc |-> [t \in Updaters |-> "none"], j |-> [t \in Updaters |-> 0],
     reg |-> [t \in Updaters |-> 0], rounds |-> [t \in Updaters |-> 0],
     main |-> "create", created |-> 0, joined |-> 0, printed |-> <<>>]

Workers == {"producer", "consumer"}

\* prodcons.c when main is about to create the two threads
pcs_start ==
    [mutex |-> "none", waiting |-> {}, state |-> 0, product |-> 0,
     shutdown |-> 0, pc |-> [t \in Workers |-> "none"], main |-> "create",
     consumed |-> 0, bcast |-> {}]

\* main has run options() and install_signals(); listen_fd is -1; the socket
\* path may be left over from an earlier run
Init ==
    /\ device = device_static
    /\ main = "device_init"
    /\ listen_fd = "none"
    /\ path \in {"absent", "stale"}
    /\ peer = [c \in Clients |-> "open"]
    /\ sig = "none"
    /\ sigpc = "none"
    /\ dropped = {}
    /\ status = [c \in Clients |-> <<>>]
    /\ stopped = [c \in Clients |-> -1]
    /\ outside = [c \in Clients |-> FALSE]
    /\ mtx = mtx_start
    /\ pcs = pcs_start
    /\ pc = [c \in Clients |-> "closed"]
    /\ chan = [c \in Clients |-> <<>>]
    /\ command = [c \in Clients |-> <<>>]
    /\ argument = [c \in Clients |-> <<>>]
    /\ last = [c \in Clients |-> Resp("NONE", <<>>, <<>>)]
    /\ nresp = [c \in Clients |-> 0]
    /\ nsent = [c \in Clients |-> 0]
    /\ lastLine = [c \in Clients |-> "NONE"]
    /\ lastWritten = [c \in Clients |-> None]
    /\ lastMutBy = 0
    /\ clearSeen = [c \in Clients |-> "no"]
    /\ lastAccessSet = "none"

----------------------------------------------------------------------------
(* Array writes on device.buffer *)

\* the copy one byte short
MemcpyShort(buffer, arg, len) ==
    IF len = 0
    THEN <<0>> \o SubSeq(buffer, 2, Len(buffer))
    ELSE SubSeq(arg, 1, len - 1) \o <<0>> \o SubSeq(buffer, len + 1, Len(buffer))

\* memcpy(device.buffer, argument, len); device.buffer[len] = '\0'
MemcpyNul(buffer, arg, len) ==
    SubSeq(arg, 1, len) \o <<0>> \o SubSeq(buffer, len + 2, Len(buffer))

\* device.buffer[0] = '\0'
ClearFirst(buffer) == <<0>> \o SubSeq(buffer, 2, Len(buffer))

\* size_t len = strlen(argument); if (len >= DEVICE_BUFFER_SIZE) len = ... - 1
WriteLen(arg) ==
    IF Len(arg) >= DEVICE_BUFFER_SIZE THEN DEVICE_BUFFER_SIZE - 1 ELSE Len(arg)

----------------------------------------------------------------------------
(* Signals: install_signals sets on_signal for SIGINT, SIGTERM and SIGPIPE *)

TermSignals == {"SIGINT", "SIGTERM"}

\* on_signal entered for signal s, up to its close: if (listen_fd != -1)
\* close(listen_fd).  A handler entered while another one runs changes nothing
\* the first has not done.
EnterOnSignal(s) ==
    /\ sig' = IF sig = "none" THEN s ELSE sig
    /\ sigpc' = IF sigpc = "none" THEN "unlink" ELSE sigpc
    /\ listen_fd' = IF listen_fd = "none" THEN "none" ELSE "closed"

\* where thread c is after a send: a send on a stream socket whose peer has
\* closed raises SIGPIPE in the sending thread, which enters on_signal
AfterSend(c, next) == IF peer[c] = "open" THEN next ELSE "on_signal"

\* the socket buffers of c's connection are full: its client has stopped
\* reading and they hold all they can
SendBlocked(c) ==
    /\ stopped[c] # -1
    /\ nresp[c] - stopped[c] >= SockBufResponses

\* send_response: the blocking send returns when the whole text has gone out
\* on the client's channel; or SIGPIPE
SendResponse(c, r) ==
    /\ ~SendBlocked(c)
    /\ IF peer[c] = "open"
       THEN /\ last' = [last EXCEPT ![c] = r]
            /\ nresp' = [nresp EXCEPT ![c] = @ + 1]
            /\ UNCHANGED sigs
       ELSE /\ EnterOnSignal("SIGPIPE")
            /\ UNCHANGED <<last, nresp>>

\* the threads a signal sent to the process can be delivered to: 0 is main
Threads == {0} \cup Clients

Running(t) ==
    IF t = 0
    THEN main \notin {"on_signal", "exited"}
    ELSE pc[t] \notin {"closed", "done", "on_signal", "exited"}

\* SIGINT or SIGTERM is delivered to thread t, which enters on_signal
Signal(s, t) ==
    /\ sigpc = "none"
    /\ Running(0)
    /\ Running(t)
    /\ EnterOnSignal(s)
    /\ IF t = 0
       THEN main' = "on_signal" /\ UNCHANGED pc
       ELSE pc' = [pc EXCEPT ![t] = "on_signal"] /\ UNCHANGED main
    /\ UNCHANGED <<device, chan, command, argument, last, nresp, sent, hist,
                   path, peer, dropped, status>>
    /\ UNCHANGED others

\* the handler that returns without removing the socket path
SigUnlinkSkipped ==
    /\ sigpc = "unlink"
    /\ sigpc' = "exit"
    /\ UNCHANGED <<device, pc, chan, command, argument, last, nresp, sent, hist,
                   main, listen_fd, path, peer, sig, dropped, status>>
    /\ UNCHANGED others

\* on_signal: unlink(EXAMPLE_SOCK_PATH)
SigUnlink ==
    /\ sigpc = "unlink"
    /\ sigpc' = "exit"
    /\ path' = "absent"
    /\ UNCHANGED <<device, pc, chan, command, argument, last, nresp, sent, hist,
                   main, listen_fd, peer, sig, dropped, status>>
    /\ UNCHANGED others

\* on_signal: _exit(0) ends the process and every thread of it
SigExit ==
    /\ sigpc = "exit"
    /\ sigpc' = "done"
    /\ main' = "exited"
    /\ pc' = [c \in Clients |-> "exited"]
    /\ UNCHANGED <<device, chan, command, argument, last, nresp, sent, hist,
                   listen_fd, path, peer, sig, dropped, status>>
    /\ UNCHANGED others

----------------------------------------------------------------------------
(* main up to its accept loop *)

\* device_init()
DeviceInit ==
    /\ main = "device_init"
    /\ main' = "socket"
    /\ device' = device_init
    /\ UNCHANGED <<pc, chan, command, argument, last, nresp, sent, hist, sigs,
                   path, peer, dropped, status>>
    /\ UNCHANGED others

\* listen_fd = socket(AF_UNIX, SOCK_STREAM, 0)
Socket ==
    /\ main = "socket"
    /\ main' = "unlink"
    /\ listen_fd' = "open"
    /\ UNCHANGED <<device, pc, chan, command, argument, last, nresp, sent, hist,
                   sig, sigpc, path, peer, dropped, status>>
    /\ UNCHANGED others

\* unlink(EXAMPLE_SOCK_PATH) before bind
UnlinkStale ==
    /\ main = "unlink"
    /\ main' = "bind"
    /\ path' = "absent"
    /\ UNCHANGED <<device, pc, chan, command, argument, last, nresp, sent, hist,
                   sigs, peer, dropped, status>>
    /\ UNCHANGED others

\* bind(listen_fd, ...) creates the socket path
Bind ==
    /\ main = "bind"
    /\ main' = "listen"
    /\ path' = "bound"
    /\ UNCHANGED <<device, pc, chan, command, argument, last, nresp, sent, hist,
                   sigs, peer, dropped, status>>
    /\ UNCHANGED others

\* listen(listen_fd, MAX_CLIENTS)
Listen ==
    /\ main = "listen"
    /\ main' = "accept"
    /\ UNCHANGED <<device, pc, chan, command, argument, last, nresp, sent, hist,
                   sigs, path, peer, dropped, status>>
    /\ UNCHANGED others

----------------------------------------------------------------------------
(* main's accept loop and the client side *)

\* accept, pthread_create, pthread_detach
Accept(c) ==
    /\ main = "accept"
    /\ listen_fd = "open"
    /\ pc[c] = "closed"
    /\ peer[c] = "open"
    /\ pc' = [pc EXCEPT ![c] = "greet"]
    /\ UNCHANGED <<device, chan, command, argument, last, nresp, sent, hist,
                   sigs, proc, status>>
    /\ UNCHANGED others

\* the failed spawn that leaves the accept loop
SpawnFailBreak(c) ==
    /\ main = "accept"
    /\ listen_fd = "open"
    /\ pc[c] = "closed"
    /\ peer[c] = "open"
    /\ c \notin dropped
    /\ Cardinality(dropped) < MaxSpawnFail
    /\ dropped' = dropped \cup {c}
    /\ main' = "exited"
    /\ listen_fd' = "closed"
    /\ path' = "absent"
    /\ pc' = [x \in Clients |-> "exited"]
    /\ UNCHANGED <<device, chan, command, argument, last, nresp, sent, hist,
                   sig, sigpc, peer, status>>
    /\ UNCHANGED others

\* accept, pthread_create fails: perror, close(client_fd), continue.  The
\* client finds its connection closed and may connect again.
SpawnFail(c) ==
    /\ main = "accept"
    /\ listen_fd = "open"
    /\ pc[c] = "closed"
    /\ peer[c] = "open"
    /\ c \notin dropped
    /\ Cardinality(dropped) < MaxSpawnFail
    /\ dropped' = dropped \cup {c}
    /\ UNCHANGED <<device, pc, chan, command, argument, last, nresp, sent, hist,
                   sigs, main, path, peer, status>>
    /\ UNCHANGED others

\* client_thread before its loop: the greeting
Greet(c) ==
    /\ pc[c] = "greet"
    /\ pc' = [pc EXCEPT ![c] = AfterSend(c, "recv")]
    /\ IF peer[c] = "open"
       THEN /\ last' = [last EXCEPT ![c] = Resp("GREETING", <<>>, <<>>)]
            /\ UNCHANGED sigs
       ELSE /\ EnterOnSignal("SIGPIPE")
            /\ UNCHANGED last
    /\ UNCHANGED <<device, chan, command, argument, nresp, sent, hist, proc,
                   status>>
    /\ UNCHANGED others

\* the client closes its end of the connection
PeerClose(c) ==
    /\ pc[c] \notin {"closed", "close", "done", "on_signal", "exited"}
    /\ peer[c] = "open"
    /\ peer' = [peer EXCEPT ![c] = "closed"]
    /\ UNCHANGED <<device, pc, chan, command, argument, last, nresp, sent, hist,
                   sigs, main, path, dropped, status>>
    /\ UNCHANGED others

TotalSent == nsent[1] + nsent[2]

\* a client that has read the greeting writes one more line
ClientSend(c, l) ==
    /\ pc[c] \notin {"closed", "greet", "close", "done", "on_signal", "exited"}
    /\ peer[c] = "open"
    /\ TotalSent < MaxSends
    /\ chan' = [chan EXCEPT ![c] = @ \o LineBytes(l)]
    /\ nsent' = [nsent EXCEPT ![c] = @ + 1]
    /\ lastLine' = [lastLine EXCEPT ![c] = l]
    /\ UNCHANGED <<device, pc, command, argument, last, nresp, hist, sigs, proc,
                   status>>
    /\ UNCHANGED others

\* the client of client.c: one command, then it waits for the response
LockstepSend(c, l) ==
    /\ pc[c] = "recv"
    /\ chan[c] = <<>>
    /\ ClientSend(c, l)

\* the most one recv returns: all that is there, up to sizeof(buf) - 1
RecvFull(c) == Min2(Len(chan[c]), RECV_BUF_SIZE - 1)

\* a recv may return before the last bytes the client wrote have arrived
RecvSizes(c) ==
    {RecvFull(c)} \cup {RecvFull(c) - k : k \in 1..Min2(MaxLag, RecvFull(c) - 1)}

\* the loop that ends when handle_command reports an error
AfterCommandBreak(rc) == IF rc < 0 THEN "close" ELSE "recv"

\* client_thread does not look at what handle_command returns: next recv
AfterCommand(rc) == "recv"

\* recv returns 0, the peer has closed and all it wrote was received: break
RecvEof(c) ==
    /\ pc[c] = "recv"
    /\ chan[c] = <<>>
    /\ peer[c] = "closed"
    /\ pc' = [pc EXCEPT ![c] = "close"]
    /\ UNCHANGED <<device, chan, command, argument, last, nresp, sent, hist,
                   sigs, proc, status>>
    /\ UNCHANGED others

\* close(fd); return NULL
CloseFd(c) ==
    /\ pc[c] = "close"
    /\ pc' = [pc EXCEPT ![c] = "done"]
    /\ UNCHANGED <<device, chan, command, argument, last, nresp, sent, hist,
                   sigs, proc, status>>
    /\ UNCHANGED others

\* what the byte before buf[] may hold when it is read: \r, or another value
BeforeBuf == {13, 0}

\* recv of n > 0 bytes, the stripping, handle_command up to the lock
Recv(c, n) ==
    LET b == SubSeq(chan[c], 1, n)
        p == Sscanf(CStr(StripLine(b)))
    IN  /\ pc[c] = "recv"
        /\ chan[c] # <<>>
        /\ n \in 1..RecvFull(c)
        /\ chan' = [chan EXCEPT ![c] = SubSeq(@, n + 1, Len(@))]
        /\ \/ /\ p.rc < 1
              /\ SendResponse(c, Resp("ERR_FORMAT", <<>>, <<>>))
              /\ pc' = [pc EXCEPT ![c] = AfterSend(c, AfterCommand(-1))]
              /\ UNCHANGED <<command, argument>>
           \/ /\ p.rc = 1
              /\ pc' = [pc EXCEPT ![c] = "lock"]
              /\ command' = [command EXCEPT ![c] = p.command]
              \* argument[] is not written: it holds what the stack held
              /\ \E g \in {argument[c], <<>>} :
                    argument' = [argument EXCEPT ![c] = g]
              /\ UNCHANGED <<last, nresp, sigs>>
           \/ /\ p.rc = 2
              /\ pc' = [pc EXCEPT ![c] = "lock"]
              /\ command' = [command EXCEPT ![c] = p.command]
              /\ argument' = [argument EXCEPT ![c] = p.argument]
              /\ UNCHANGED <<last, nresp, sigs>>
        \* if (buf[n-2] == '\r') buf[n-2] = '\0' with n = 1 is buf[-1]
        /\ IF n = 1
           THEN \E u \in BeforeBuf :
                   outside' = [outside EXCEPT ![c] = @ \/ (u = 13)]
           ELSE UNCHANGED outside
        /\ UNCHANGED <<device, sent, hist, proc, status, stopped, mtx, pcs>>

----------------------------------------------------------------------------
(* handle_command from the lock on *)

\* a trylock whose failure is not looked at
LockTry(c) ==
    /\ pc[c] = "lock"
    /\ device' = IF device.mutex = NoOwner
                 THEN [device EXCEPT !.mutex = c] ELSE device
    /\ pc' = [pc EXCEPT ![c] = "branch"]
    /\ UNCHANGED <<chan, command, argument, last, nresp, sent, hist, sigs, proc,
                   status>>
    /\ UNCHANGED others

\* a lock that does not wait for the owner to release
LockNoWait(c) ==
    /\ pc[c] = "lock"
    /\ device' = [device EXCEPT !.mutex = c]
    /\ pc' = [pc EXCEPT ![c] = "branch"]
    /\ UNCHANGED <<chan, command, argument, last, nresp, sent, hist, sigs, proc,
                   status>>
    /\ UNCHANGED others

\* pthread_mutex_lock(&device.mutex)
Lock(c) ==
    /\ pc[c] = "lock"
    /\ device.mutex = NoOwner
    /\ device' = [device EXCEPT !.mutex = c]
    /\ pc' = [pc EXCEPT ![c] = "branch"]
    /\ UNCHANGED <<chan, command, argument, last, nresp, sent, hist, sigs, proc,
                   status>>
    /\ UNCHANGED others

\* a comparison that ignores letter case
Upper(b) == IF b \in 97..122 THEN b - 32 ELSE b
StrEqNoCase(a, b) ==
    /\ Len(a) = Len(b)
    /\ \A i \in 1..Len(a) : Upper(a[i]) = Upper(b[i])

\* strcmp(a, b) == 0
StrEq(a, b) == a = b

ToUnlock(c) == pc' = [pc EXCEPT ![c] = AfterSend(c, "unlock")]

\* what the READ branch answers from a buffer and its size
ReadResponse(d) ==
    IF d.buffer_size = 0
    THEN Resp("BUFFER_EMPTY", <<>>, <<>>)
    ELSE Resp("DATA", CStrN(d.buffer, d.buffer_size), <<>>)

\* the read that takes what it returns out of the buffer
ReadConsumed(d) == [d EXCEPT !.read_count = @ + 1, !.buffer_size = 0]

\* the count moved into the branch that returns data
ReadCountedIfData(d) ==
    IF d.buffer_size = 0 THEN d ELSE [d EXCEPT !.read_count = @ + 1]

\* device.read_count++
ReadCounted(d) == [d EXCEPT !.read_count = @ + 1]

CmdRead(c) ==
    /\ pc[c] = "branch"
    /\ StrEq(command[c], KW_READ)
    /\ device' = ReadCounted(device)
    /\ SendResponse(c, ReadResponse(device))
    /\ ToUnlock(c)
    /\ UNCHANGED <<chan, command, argument, sent, hist, proc, status>>
    /\ UNCHANGED others

\* the access check left out
ReadOnlyNever(d) == FALSE

\* the access check with its sense inverted
ReadOnlyInverted(d) == d.access_level # 0

\* the check that gates DATA and CLEAR
ReadOnly(d) == d.access_level = 0

\* DATA, read-only: the error.  Otherwise strlen, memcpy and the NUL.
CmdData(c) ==
    /\ pc[c] = "branch"
    /\ StrEq(command[c], KW_DATA)
    /\ \/ /\ ReadOnly(device)
          /\ SendResponse(c, Resp("ERR_READONLY", <<>>, <<>>))
          /\ ToUnlock(c)
          /\ UNCHANGED <<device, hist>>
       \/ /\ ~ReadOnly(device)
          /\ device' = [device EXCEPT
                !.buffer = MemcpyNul(@, argument[c], WriteLen(argument[c]))]
          /\ pc' = [pc EXCEPT ![c] = "data_size"]
          /\ lastWritten' = [lastWritten EXCEPT ![c] = None]
          /\ clearSeen' = [x \in Clients |-> "no"]
          /\ UNCHANGED <<last, nresp, lastMutBy, lastAccessSet, sigs>>
    /\ UNCHANGED <<chan, command, argument, sent, proc, status>>
    /\ UNCHANGED others

\* the write that adds to the size that was there
WriteAppended(d, len) ==
    [d EXCEPT !.buffer_size = @ + len, !.write_count = @ + 1]

\* the write that forgets its count
WriteNotCounted(d, len) == [d EXCEPT !.buffer_size = len]

\* device.buffer_size = len; device.write_count++
WriteCounted(d, len) == [d EXCEPT !.buffer_size = len, !.write_count = @ + 1]

\* DATA, second half: buffer_size = len, write_count++, the WRITTEN answer
CmdDataSize(c) ==
    LET len == WriteLen(argument[c])
    IN  /\ pc[c] = "data_size"
        /\ device' = WriteCounted(device, len)
        /\ SendResponse(c, Resp("WRITTEN", <<>>, <<len>>))
        /\ ToUnlock(c)
        /\ lastWritten' = [lastWritten EXCEPT ![c] = SubSeq(argument[c], 1, len)]
        /\ lastMutBy' = c
        /\ UNCHANGED <<chan, command, argument, sent, clearSeen, lastAccessSet,
                       proc, status>>
        /\ UNCHANGED others

\* the clear that leaves buffer_size as it was
ClearedKeepSize(d) ==
    [d EXCEPT !.buffer = ClearFirst(@), !.read_pos = 0, !.write_pos = 0]

\* buffer[0] = 0, buffer_size = 0, read_pos = 0, write_pos = 0
Cleared(d) ==
    [d EXCEPT !.buffer = ClearFirst(@), !.buffer_size = 0, !.read_pos = 0,
              !.write_pos = 0]

CmdClear(c) ==
    /\ pc[c] = "branch"
    /\ StrEq(command[c], KW_CLEAR)
    /\ \/ /\ ReadOnly(device)
          /\ SendResponse(c, Resp("ERR_READONLY", <<>>, <<>>))
          /\ clearSeen' = [clearSeen EXCEPT ![c] = "denied"]
          /\ UNCHANGED <<device, lastWritten, lastMutBy>>
       \/ /\ ~ReadOnly(device)
          /\ device' = Cleared(device)
          /\ SendResponse(c, Resp("BUFFER_CLEARED", <<>>, <<>>))
          /\ clearSeen' = [clearSeen EXCEPT ![c] = "cleared"]
          /\ lastWritten' = [lastWritten EXCEPT ![c] = None]
          /\ lastMutBy' = c
    /\ ToUnlock(c)
    /\ UNCHANGED <<chan, command, argument, sent, lastAccessSet, proc, status>>
    /\ UNCHANGED others

\* the four values snprintf formats: the two read first, then the two of d
StatusResponse(st, d) ==
    Resp("STATUS", IF d.access_level # 0 THEN STR_READ_WRITE ELSE STR_READ_ONLY,
         <<st[1], st[2], d.write_count>>)

\* STATUS: snprintf's arguments device.buffer_size and device.read_count are
\* loaded
CmdStatus(c) ==
    /\ pc[c] = "branch"
    /\ StrEq(command[c], KW_STATUS)
    /\ status' = [status EXCEPT ![c] = <<device.buffer_size, device.read_count>>]
    /\ pc' = [pc EXCEPT ![c] = "status_rest"]
    /\ UNCHANGED <<device, chan, command, argument, last, nresp, sent, hist,
                   sigs, proc>>
    /\ UNCHANGED others

\* STATUS: device.write_count and device.access_level are loaded, the text
\* is formatted and sent
CmdStatusRest(c) ==
    /\ pc[c] = "status_rest"
    /\ SendResponse(c, StatusResponse(status[c], device))
    /\ status' = [status EXCEPT ![c] = <<>>]
    /\ ToUnlock(c)
    /\ UNCHANGED <<device, chan, command, argument, sent, hist, proc>>
    /\ UNCHANGED others

CmdSetAccess(c) ==
    /\ pc[c] = "branch"
    /\ StrEq(command[c], KW_SET_ACCESS)
    /\ \/ /\ StrEq(argument[c], STR_READ_ONLY)
          /\ device' = [device EXCEPT !.access_level = 0]
          /\ SendResponse(c, Resp("ACCESS_SET", STR_READ_ONLY, <<>>))
          /\ lastAccessSet' = "read-only"
       \/ /\ ~StrEq(argument[c], STR_READ_ONLY)
          /\ StrEq(argument[c], STR_READ_WRITE)
          /\ device' = [device EXCEPT !.access_level = 1]
          /\ SendResponse(c, Resp("ACCESS_SET", STR_READ_WRITE, <<>>))
          /\ lastAccessSet' = "read-write"
       \/ /\ ~StrEq(argument[c], STR_READ_ONLY)
          /\ ~StrEq(argument[c], STR_READ_WRITE)
          /\ SendResponse(c, Resp("ERR_ACCESS", <<>>, <<>>))
          /\ UNCHANGED <<device, lastAccessSet>>
    /\ ToUnlock(c)
    /\ UNCHANGED <<chan, command, argument, sent, lastWritten, lastMutBy,
                   clearSeen, proc, status>>
    /\ UNCHANGED others

CmdHelp(c) ==
    /\ pc[c] = "branch"
    /\ StrEq(command[c], KW_HELP)
    /\ SendResponse(c, Resp("HELP", <<>>, <<>>))
    /\ ToUnlock(c)
    /\ UNCHANGED <<device, chan, command, argument, sent, hist, proc, status>>
    /\ UNCHANGED others

\* the strcmp chain's keywords
Vocabulary == {KW_READ, KW_DATA, KW_CLEAR, KW_STATUS, KW_SET_ACCESS, KW_HELP}

\* the final else of the strcmp chain
CmdUnknown(c) ==
    /\ pc[c] = "branch"
    /\ \A kw \in Vocabulary : ~StrEq(command[c], kw)
    /\ SendResponse(c, Resp("ERR_UNKNOWN", <<>>, <<>>))
    /\ ToUnlock(c)
    /\ UNCHANGED <<device, chan, command, argument, sent, hist, proc, status>>
    /\ UNCHANGED others

\* pthread_mutex_unlock(&device.mutex); return 0; back to recv
Unlock(c) ==
    /\ pc[c] = "unlock"
    /\ device' = [device EXCEPT !.mutex = NoOwner]
    /\ pc' = [pc EXCEPT ![c] = AfterCommand(0)]
    /\ UNCHANGED <<chan, command, argument, last, nresp, sent, hist, sigs, proc,
                   status>>
    /\ UNCHANGED others

----------------------------------------------------------------------------

Next ==
    \/ DeviceInit
    \/ Socket
    \/ UnlinkStale
    \/ Bind
    \/ Listen
    \/ \E c \in Clients :
        \/ Accept(c)
        \/ Greet(c)
        \/ \E l \in Menu(c) : LockstepSend(c, l)
        \/ Recv(c, RecvFull(c))
        \/ Lock(c)
        \/ CmdRead(c)
        \/ CmdData(c)
        \/ CmdDataSize(c)
        \/ CmdClear(c)
        \/ CmdStatus(c)
        \/ CmdStatusRest(c)
        \/ CmdSetAccess(c)
        \/ CmdHelp(c)
        \/ CmdUnknown(c)
        \/ Unlock(c)

Spec == Init /\ [][Next]_vars

----------------------------------------------------------------------------
(* One connection whose client writes its lines without waiting for the     *)
(* responses, and whose bytes reach recv in any grouping                    *)

StreamClients == {1}

StreamMenu == {"READ", "DATA_AB", "DATA_LONG"}

StreamSend(c, l) ==
    /\ TotalSent < MaxStreamSends
    /\ ClientSend(c, l)

NextStream ==
    \/ DeviceInit
    \/ Socket
    \/ UnlinkStale
    \/ Bind
    \/ Listen
    \/ \E c \in StreamClients :
        \/ Accept(c)
        \/ Greet(c)
        \/ \E l \in StreamMenu : StreamSend(c, l)
        \/ \E n \in RecvSizes(c) : Recv(c, n)
        \/ Lock(c)
        \/ CmdRead(c)
        \/ CmdData(c)
        \/ CmdDataSize(c)
        \/ CmdUnknown(c)
        \/ Unlock(c)

SpecStream == Init /\ [][NextStream]_vars

----------------------------------------------------------------------------
(* The server from its start to its end: signals, clients that close their  *)
(* end, connections whose thread cannot be created                          *)

LifeMenu == {"READ", "FOO"}

LifeSend(c, l) ==
    /\ TotalSent < MaxLifeSends
    /\ LockstepSend(c, l)

NextLife ==
    \/ DeviceInit
    \/ Socket
    \/ UnlinkStale
    \/ Bind
    \/ Listen
    \/ \E s \in TermSignals : \E t \in Threads : Signal(s, t)
    \/ SigUnlink
    \/ SigExit
    \/ \E c \in Clients :
        \/ Accept(c)
        \/ SpawnFail(c)
        \/ Greet(c)
        \/ PeerClose(c)
        \/ \E l \in LifeMenu : LifeSend(c, l)
        \/ Recv(c, RecvFull(c))
        \/ RecvEof(c)
        \/ CloseFd(c)
        \/ Lock(c)
        \/ CmdRead(c)
        \/ CmdUnknown(c)
        \/ Unlock(c)

SpecLife == Init /\ [][NextLife]_vars

----------------------------------------------------------------------------
(* Clients that write their lines without waiting, one of which may stop    *)
(* reading what the server sends                                            *)

\* the client reads nothing more from its connection
StopReading(c) ==
    /\ pc[c] \notin {"closed", "greet", "close", "done", "on_signal", "exited"}
    /\ stopped[c] = -1
    /\ stopped' = [stopped EXCEPT ![c] = nresp[c]]
    /\ UNCHANGED <<device, pc, chan, command, argument, last, nresp, sent, hist,
                   sigs, proc, status, outside, mtx, pcs>>

StallSend(c, l) ==
    /\ TotalSent < MaxStallSends
    /\ chan[c] = <<>>
    /\ ClientSend(c, l)

NextStall ==
    \/ DeviceInit
    \/ Socket
    \/ UnlinkStale
    \/ Bind
    \/ Listen
    \/ \E c \in Clients :
        \/ Accept(c)
        \/ Greet(c)
        \/ StallSend(c, "READ")
        \/ StopReading(c)
        \/ Recv(c, RecvFull(c))
        \/ Lock(c)
        \/ CmdRead(c)
        \/ Unlock(c)

SpecStall == Init /\ [][NextStall]_vars

----------------------------------------------------------------------------
(* mutex.c: update threads that increment var1 and var2 under a mutex *)

\* the resource manager's variables, which the two demo programs leave alone
server == <<device, pc, chan, command, argument, last, nresp, nsent, lastLine,
            lastWritten, lastMutBy, clearSeen, lastAccessSet, main, listen_fd,
            path, peer, sig, sigpc, dropped, status, stopped, outside>>

\* main: pthread_create(&threadID[i], ...) in its for loop, then sleep
MtxCreate ==
    /\ mtx.main = "create"
    /\ mtx' = [mtx EXCEPT
          !.pc[mtx.created + 1] = "while",
          !.created = @ + 1,
          !.main = IF mtx.created + 1 = MaxUpdaters THEN "sleep" ELSE "create"]
    /\ UNCHANGED <<server, pcs>>

\* main: sleep(10) is over; running = 0
MtxStop ==
    /\ mtx.main = "sleep"
    /\ mtx' = [mtx EXCEPT !.running = 0, !.main = "join"]
    /\ UNCHANGED <<server, pcs>>

\* main: pthread_join(threadID[i], NULL) returns for the next thread
MtxJoin ==
    /\ mtx.main = "join"
    /\ mtx.pc[mtx.joined + 1] = "returned"
    /\ mtx' = [mtx EXCEPT
          !.joined = @ + 1,
          !.main = IF mtx.joined + 1 = MaxUpdaters THEN "print" ELSE "join"]
    /\ UNCHANGED <<server, pcs>>

\* main: printf of var1 and var2, pthread_mutex_destroy, exit(0)
MtxPrint ==
    /\ mtx.main = "print"
    /\ mtx' = [mtx EXCEPT !.printed = <<mtx.var1, mtx.var2>>, !.main = "exit"]
    /\ UNCHANGED <<server, pcs>>

\* while (running)
MtxWhile(t) ==
    /\ mtx.pc[t] = "while"
    /\ mtx' = [mtx EXCEPT
          !.pc[t] = IF mtx.running # 0 THEN "lock" ELSE "returned"]
    /\ UNCHANGED <<server, pcs>>

\* a lock that does not wait for the owner to release
MtxLockNoWait(t) ==
    /\ mtx.pc[t] = "lock"
    /\ mtx' = [mtx EXCEPT !.mutex = t, !.pc[t] = "for", !.j[t] = 0]
    /\ UNCHANGED <<server, pcs>>

\* pthread_mutex_lock(&mutex); j = 0
MtxLock(t) ==
    /\ mtx.pc[t] = "lock"
    /\ mtx.mutex = NoOwner
    /\ mtx' = [mtx EXCEPT !.mutex = t, !.pc[t] = "for", !.j[t] = 0]
    /\ UNCHANGED <<server, pcs>>

\* j < 10000 of the inner for
MtxFor(t) ==
    /\ mtx.pc[t] = "for"
    /\ mtx' = [mtx EXCEPT
          !.pc[t] = IF mtx.j[t] < MaxInner THEN "load1" ELSE "unlock"]
    /\ UNCHANGED <<server, pcs>>

\* var1++ on a volatile int: the load
MtxLoad1(t) ==
    /\ mtx.pc[t] = "load1"
    /\ mtx' = [mtx EXCEPT !.reg[t] = mtx.var1, !.pc[t] = "store1"]
    /\ UNCHANGED <<server, pcs>>

\* var1++: the store
MtxStore1(t) ==
    /\ mtx.pc[t] = "store1"
    /\ mtx' = [mtx EXCEPT !.var1 = mtx.reg[t] + 1, !.reg[t] = 0,
                          !.pc[t] = "load2"]
    /\ UNCHANGED <<server, pcs>>

\* var2++: the load
MtxLoad2(t) ==
    /\ mtx.pc[t] = "load2"
    /\ mtx' = [mtx EXCEPT !.reg[t] = mtx.var2, !.pc[t] = "store2"]
    /\ UNCHANGED <<server, pcs>>

\* var2++: the store; j++
MtxStore2(t) ==
    /\ mtx.pc[t] = "store2"
    /\ mtx' = [mtx EXCEPT !.var2 = mtx.reg[t] + 1, !.reg[t] = 0,
                          !.j[t] = @ + 1, !.pc[t] = "for"]
    /\ UNCHANGED <<server, pcs>>

\* pthread_mutex_unlock(&mutex)
MtxUnlock(t) ==
    /\ mtx.pc[t] = "unlock"
    /\ mtx' = [mtx EXCEPT !.mutex = NoOwner, !.j[t] = 0, !.rounds[t] = @ + 1,
                          !.pc[t] = "usleep"]
    /\ UNCHANGED <<server, pcs>>

\* usleep(1000) returns; after MaxRounds rounds it lasts until main's sleep
\* is over
MtxUsleep(t) ==
    /\ mtx.pc[t] = "usleep"
    /\ mtx.rounds[t] < MaxRounds \/ mtx.running = 0
    /\ mtx' = [mtx EXCEPT !.pc[t] = "while"]
    /\ UNCHANGED <<server, pcs>>

NextMutex ==
    \/ MtxCreate
    \/ MtxStop
    \/ MtxJoin
    \/ MtxPrint
    \/ \E t \in Updaters :
        \/ MtxWhile(t)
        \/ MtxLock(t)
        \/ MtxFor(t)
        \/ MtxLoad1(t)
        \/ MtxStore1(t)
        \/ MtxLoad2(t)
        \/ MtxStore2(t)
        \/ MtxUnlock(t)
        \/ MtxUsleep(t)

SpecMutex == Init /\ [][NextMutex]_vars

----------------------------------------------------------------------------
(* prodcons.c: a producer and a consumer that take turns through a          *)
(* condition variable                                                        *)

\* main: pthread_create of the producer, then of the consumer
PcsCreate ==
    \/ /\ pcs.main = "create"
       /\ pcs' = [pcs EXCEPT !.pc["producer"] = "lock", !.main = "create2"]
       /\ UNCHANGED <<server, mtx>>
    \/ /\ pcs.main = "create2"
       /\ pcs' = [pcs EXCEPT !.pc["consumer"] = "lock", !.main = "sleep"]
       /\ UNCHANGED <<server, mtx>>

\* main: sleep(20) is over
PcsSleep ==
    /\ pcs.main = "sleep"
    /\ pcs' = [pcs EXCEPT !.main = "lock"]
    /\ UNCHANGED <<server, mtx>>

\* main: pthread_mutex_lock(&mutex)
PcsMainLock ==
    /\ pcs.main = "lock"
    /\ pcs.mutex = "none"
    /\ pcs' = [pcs EXCEPT !.mutex = "main", !.main = "shutdown"]
    /\ UNCHANGED <<server, mtx>>

\* main: shutdown = 1
PcsShutdown ==
    /\ pcs.main = "shutdown"
    /\ pcs' = [pcs EXCEPT !.shutdown = 1, !.main = "broadcast"]
    /\ UNCHANGED <<server, mtx>>

\* a broadcast that wakes nobody
PcsBroadcastNone ==
    /\ pcs.main = "broadcast"
    /\ pcs' = [pcs EXCEPT !.bcast = pcs.waiting, !.main = "unlock"]
    /\ UNCHANGED <<server, mtx>>

\* main: pthread_cond_broadcast(&cond) wakes every waiting thread, which
\* then has to take the mutex again
PcsBroadcast ==
    /\ pcs.main = "broadcast"
    /\ pcs' = [pcs EXCEPT
          !.pc = [t \in Workers |->
                    IF t \in pcs.waiting THEN "relock" ELSE pcs.pc[t]],
          !.waiting = {},
          !.bcast = pcs.waiting,
          !.main = "unlock"]
    /\ UNCHANGED <<server, mtx>>

\* main: pthread_mutex_unlock(&mutex)
PcsMainUnlock ==
    /\ pcs.main = "unlock"
    /\ pcs' = [pcs EXCEPT !.mutex = "none", !.main = "join_producer"]
    /\ UNCHANGED <<server, mtx>>

\* main: pthread_join of the producer, then of the consumer, then return
PcsJoin ==
    \/ /\ pcs.main = "join_producer"
       /\ pcs.pc["producer"] = "returned"
       /\ pcs' = [pcs EXCEPT !.main = "join_consumer"]
       /\ UNCHANGED <<server, mtx>>
    \/ /\ pcs.main = "join_consumer"
       /\ pcs.pc["consumer"] = "returned"
       /\ pcs' = [pcs EXCEPT !.main = "returned"]
       /\ UNCHANGED <<server, mtx>>

\* pthread_mutex_lock(&mutex) at the top of the loop, and the lock that
\* pthread_cond_wait takes again before it returns
PcsLock(t) ==
    /\ pcs.pc[t] \in {"lock", "relock"}
    /\ pcs.mutex = "none"
    /\ pcs' = [pcs EXCEPT !.mutex = t, !.pc[t] = "while"]
    /\ UNCHANGED <<server, mtx>>

\* the value of state on which a thread has to wait
WaitState(t) == IF t = "producer" THEN 1 ELSE 0

\* a condition that never makes a thread wait
PcsNeverWait(t) == FALSE

\* while (state == 1 && !shutdown), for the consumer state == 0
PcsMustWait(t) == pcs.state = WaitState(t) /\ pcs.shutdown = 0

\* the while condition holds: pthread_cond_wait releases the mutex and waits
PcsWait(t) ==
    /\ pcs.pc[t] = "while"
    /\ PcsMustWait(t)
    /\ pcs' = [pcs EXCEPT !.mutex = "none", !.waiting = @ \cup {t},
                          !.pc[t] = "wait"]
    /\ UNCHANGED <<server, mtx>>

\* the while condition fails: go on to if (shutdown)
PcsWhileEnd(t) ==
    /\ pcs.pc[t] = "while"
    /\ ~PcsMustWait(t)
    /\ pcs' = [pcs EXCEPT !.pc[t] = "if"]
    /\ UNCHANGED <<server, mtx>>

\* pthread_cond_wait may wake without a signal
PcsSpurious(t) ==
    /\ pcs.pc[t] = "wait"
    /\ pcs' = [pcs EXCEPT !.waiting = @ \ {t}, !.pc[t] = "relock"]
    /\ UNCHANGED <<server, mtx>>

\* if (shutdown) { pthread_mutex_unlock(&mutex); break; } and the return
PcsExit(t) ==
    /\ pcs.pc[t] = "if"
    /\ pcs.shutdown # 0
    /\ pcs' = [pcs EXCEPT !.mutex = "none", !.pc[t] = "returned"]
    /\ UNCHANGED <<server, mtx>>

\* producer: printf of ++product
PcsProduce(t) ==
    /\ t = "producer"
    /\ pcs.pc[t] = "if"
    /\ pcs.shutdown = 0
    /\ pcs' = [pcs EXCEPT !.product = @ + 1, !.pc[t] = "state"]
    /\ UNCHANGED <<server, mtx>>

\* consumer: printf of product
PcsConsume(t) ==
    /\ t = "consumer"
    /\ pcs.pc[t] = "if"
    /\ pcs.shutdown = 0
    /\ pcs' = [pcs EXCEPT !.consumed = pcs.product, !.pc[t] = "state"]
    /\ UNCHANGED <<server, mtx>>

\* state = 1 in the producer, state = 0 in the consumer
PcsState(t) ==
    /\ pcs.pc[t] = "state"
    /\ pcs' = [pcs EXCEPT !.state = WaitState(t), !.pc[t] = "signal"]
    /\ UNCHANGED <<server, mtx>>

\* pthread_cond_signal(&cond) wakes one waiting thread, if there is one
PcsSignal(t) ==
    /\ pcs.pc[t] = "signal"
    /\ IF pcs.waiting = {}
       THEN pcs' = [pcs EXCEPT !.pc[t] = "unlock"]
       ELSE \E w \in pcs.waiting :
              pcs' = [pcs EXCEPT !.waiting = @ \ {w},
                                 !.pc = [@ EXCEPT ![w] = "relock",
                                                  ![t] = "unlock"]]
    /\ UNCHANGED <<server, mtx>>

\* pthread_mutex_unlock(&mutex) at the end of the loop body
PcsUnlock(t) ==
    /\ pcs.pc[t] = "unlock"
    /\ pcs' = [pcs EXCEPT !.mutex = "none", !.pc[t] = "work"]
    /\ UNCHANGED <<server, mtx>>

\* do_producer_work, do_consumer_work: usleep returns; after MaxProduct
\* products the producer's lasts until main has set shutdown
PcsWork(t) ==
    /\ pcs.pc[t] = "work"
    /\ t = "producer" => pcs.product < MaxProduct \/ pcs.shutdown = 1
    /\ pcs' = [pcs EXCEPT !.pc[t] = "lock"]
    /\ UNCHANGED <<server, mtx>>

\* the steps of main
PcsMain ==
    \/ PcsCreate
    \/ PcsSleep
    \/ PcsMainLock
    \/ PcsShutdown
    \/ PcsBroadcast
    \/ PcsMainUnlock
    \/ PcsJoin

\* the steps of the producer or the consumer that the thread takes itself
PcsThread(t) ==
    \/ PcsLock(t)
    \/ PcsWait(t)
    \/ PcsWhileEnd(t)
    \/ PcsExit(t)
    \/ PcsProduce(t)
    \/ PcsConsume(t)
    \/ PcsState(t)
    \/ PcsSignal(t)
    \/ PcsUnlock(t)
    \/ PcsWork(t)

NextProdCons ==
    \/ PcsMain
    \/ \E t \in Workers : PcsThread(t) \/ PcsSpurious(t)

SpecProdCons == Init /\ [][NextProdCons]_vars

\* every thread that can take a step is scheduled in the end; a wake
\* without a signal is never owed
SpecProdConsFair ==
    /\ Init
    /\ [][NextProdCons]_vars
    /\ WF_vars(PcsMain)
    /\ \A t \in Workers : WF_vars(PcsThread(t))

----------------------------------------------------------------------------
(* Steps of a handler, for the properties below *)

\* handler c leaves the branch of keyword kw in this step
BranchStep(c, kw) ==
    /\ pc[c] = "branch"
    /\ command[c] = kw
    /\ pc'[c] # "branch"

\* handler c writes a response in this step
Answers(c) == nresp'[c] = nresp[c] + 1

\* the text a READ answer carries
DataAnswer(x) ==
    IF x = <<>> THEN Resp("BUFFER_EMPTY", <<>>, <<>>) ELSE Resp("DATA", x, <<>>)

----------------------------------------------------------------------------
(* C1: when both clients' DATA writes (arguments x and y) have been answered *)
(* and stand as each client's last change of the buffer, a READ is answered  *)
(* with exactly x or exactly y, never a mixture and never another length.    *)
C1_NoTornWrite ==
    [][\A r \in Clients :
          ( /\ BranchStep(r, KW_READ)
            /\ lastWritten[1] # None
            /\ lastWritten[2] # None )
          => /\ last'[r] \in {DataAnswer(lastWritten[1]),
                              DataAnswer(lastWritten[2])}
             /\ Len(last'[r].text) \in {Len(lastWritten[1]),
                                        Len(lastWritten[2])}]_vars

\* a READ answered after DATA ab of client 1 and DATA c of client 2
C1_Witness ==
    \E r \in Clients :
        /\ pc[r] = "unlock"
        /\ command[r] = KW_READ
        /\ lastWritten[1] = TXT_AB
        /\ lastWritten[2] = TXT_C
        /\ last[r].kind = "DATA"
        /\ last[r].text \in {TXT_AB, TXT_C}

(* C2: after a SET_ACCESS read-only has succeeded and until a SET_ACCESS     *)
(* read-write succeeds, every DATA and CLEAR of any client is answered with  *)
(* the read-only error; READ and STATUS are answered normally in both modes. *)
C2_AccessGating ==
    [][\A c \in Clients :
          /\ ( /\ Answers(c)
               /\ pc[c] \in {"branch", "data_size"}
               /\ command[c] \in {KW_DATA, KW_CLEAR}
               /\ lastAccessSet = "read-only" )
             => last'[c].kind = "ERR_READONLY"
          /\ BranchStep(c, KW_READ)
             => Answers(c) /\ last'[c].kind \in {"DATA", "BUFFER_EMPTY"}
          /\ (pc[c] = "status_rest" /\ pc'[c] # pc[c])
             => Answers(c) /\ last'[c].kind = "STATUS"]_vars

\* a DATA or CLEAR refused while the last successful SET_ACCESS is read-only
C2_Witness ==
    \E c \in Clients :
        /\ lastAccessSet = "read-only"
        /\ pc[c] = "unlock"
        /\ command[c] \in {KW_DATA, KW_CLEAR}
        /\ last[c].kind = "ERR_READONLY"

(* C3: read_count grows by exactly one in every step that processes a READ   *)
(* (empty buffer or not, either access mode) and is unchanged by every other *)
(* step; it never decreases.                                                 *)
C3_ReadCount ==
    [][device'.read_count =
          device.read_count
          + (IF \E c \in Clients : BranchStep(c, KW_READ) THEN 1 ELSE 0)]_vars

\* two READs counted, one answered BUFFER_EMPTY and one with data
C3_Witness ==
    /\ device.read_count = 2
    /\ \E c \in Clients : last[c].kind = "BUFFER_EMPTY"
    /\ \E c \in Clients : last[c].kind = "DATA"

(* C4: write_count grows by exactly one in every step that answers WRITTEN   *)
(* and is unchanged by every other step: a DATA refused as read-only, CLEAR,  *)
(* SET_ACCESS and the rest leave it alone.                                    *)
C4_WriteCount ==
    [][device'.write_count =
          device.write_count
          + (IF \E c \in Clients : Answers(c) /\ last'[c].kind = "WRITTEN"
             THEN 1 ELSE 0)]_vars

\* one write counted, and a later DATA refused as read-only
C4_Witness ==
    \E c \in Clients :
        /\ device.write_count = 1
        /\ pc[c] = "unlock"
        /\ command[c] = KW_DATA
        /\ last[c].kind = "ERR_READONLY"

(* C5: a DATA or CLEAR processed while access_level is read-only is answered *)
(* with the read-only error and leaves the device as it was: buffer,         *)
(* buffer_size, access_level, read_count, write_count.                       *)
C5_ReadOnlyNoEffect ==
    [][\A c \in Clients :
          ( /\ pc[c] = "branch"
            /\ command[c] \in {KW_DATA, KW_CLEAR}
            /\ device.access_level = 0
            /\ pc'[c] # pc[c] )
          => /\ Answers(c)
             /\ last'[c].kind = "ERR_READONLY"
             /\ device' = device]_vars

\* a CLEAR refused with the buffer still holding its content
C5_Witness ==
    \E c \in Clients :
        /\ pc[c] = "unlock"
        /\ command[c] = KW_CLEAR
        /\ last[c].kind = "ERR_READONLY"
        /\ device.access_level = 0
        /\ device.buffer_size > 0

(* C6: in read-write mode a DATA line whose argument is longer than          *)
(* DEVICE_BUFFER_SIZE - 1 bytes stores exactly its first 1023 bytes and is   *)
(* answered WRITTEN: 1023 bytes; a DATA line whose argument is at most 1023  *)
(* bytes long stores the whole argument and is answered with its length.     *)
(* Stated of the first response to a client that has sent one DATA line.     *)
C6_Truncation ==
    \A c \in Clients :
        ( /\ nsent[c] = 1
          /\ LineIsData(lastLine[c])
          /\ nresp[c] = 1
          /\ pc[c] = "unlock"
          /\ device.access_level = 1 )
        => LET x == LineArg(lastLine[c])
               n == IF Len(x) > DEVICE_BUFFER_SIZE - 1
                    THEN DEVICE_BUFFER_SIZE - 1 ELSE Len(x)
           IN  /\ last[c] = Resp("WRITTEN", <<>>, <<n>>)
               /\ device.buffer_size = n
               /\ CStrN(device.buffer, device.buffer_size) = SubSeq(x, 1, n)

C8_ClearThenReadAnyMode ==
    [][\A c \in Clients :
          (BranchStep(c, KW_READ) /\ clearSeen[c] # "no")
          => last'[c].kind = "BUFFER_EMPTY"]_vars

(* C8, amended: when a client's CLEAR has been answered BUFFER_CLEARED (the  *)
(* device was read-write) and no DATA write of any client has been processed *)
(* since, that client's READ is answered BUFFER_EMPTY.                       *)
C8_ClearThenRead ==
    [][\A c \in Clients :
          (BranchStep(c, KW_READ) /\ clearSeen[c] = "cleared")
          => last'[c] = Resp("BUFFER_EMPTY", <<>>, <<>>)]_vars

\* a READ answered BUFFER_EMPTY after the client's successful CLEAR
C8_Witness ==
    \E c \in Clients :
        /\ pc[c] = "unlock"
        /\ command[c] = KW_READ
        /\ clearSeen[c] = "cleared"
        /\ last[c].kind = "BUFFER_EMPTY"

(* C9: a command whose keyword is not one of READ, DATA, CLEAR, STATUS,      *)
(* SET_ACCESS, HELP (FOO, or read in lower case) is answered with the        *)
(* unknown-command error and leaves the device unchanged.                    *)
C9_UnknownCommand ==
    [][\A c \in Clients :
          ( /\ pc[c] = "branch"
            /\ pc'[c] # pc[c]
            /\ \/ command[c] \notin Vocabulary
               \/ lastLine[c] \in {"FOO", "LOWER_READ"} )
          => /\ Answers(c)
             /\ last'[c].kind = "ERR_UNKNOWN"
             /\ device' = device]_vars

\* the line read, in lower case, answered with the unknown-command error
C9_Witness ==
    \E c \in Clients :
        /\ pc[c] = "unlock"
        /\ lastLine[c] = "LOWER_READ"
        /\ command[c] = TXT_LOWER_READ
        /\ last[c].kind = "ERR_UNKNOWN"
        /\ device.read_count = 0

(* C10: every line a connected client has sent has been answered with       *)
(* exactly one response once its handler has received all the client wrote   *)
(* and waits for more, however recv grouped the bytes.                       *)
C10_OneResponsePerLine ==
    \A c \in Clients :
        (pc[c] = "recv" /\ chan[c] = <<>>) => nresp[c] = nsent[c]

(* C11: the server process ends only when SIGINT or SIGTERM was sent to it:  *)
(* whatever a client does (closing its end before a response is written      *)
(* included), the process keeps running.                                     *)
C11_ClientsCannotEndServer ==
    main = "exited" => sig \in TermSignals

\* a handler's thread holds the lock, or is between lock and unlock
InBranch(c) == pc[c] \in {"branch", "data_size", "status_rest", "unlock"}

\* the fields of the device a command reads or changes
DeviceData(d) ==
    <<d.buffer, d.buffer_size, d.access_level, d.read_count, d.write_count>>

(* C12: a handler that is inside a command branch owns device.mutex, so at   *)
(* most one handler is inside a branch; every step that changes buffer,      *)
(* buffer_size, access_level or the counters after device_init, and every    *)
(* step of a branch, is taken by the owner of the mutex while no other       *)
(* handler is inside a branch.                                               *)
C12_MutualExclusion ==
    [][/\ \A c \in Clients :
             pc'[c] \in {"branch", "data_size", "status_rest", "unlock"}
             => device'.mutex = c
       /\ \A c \in Clients :
             (InBranch(c) /\ pc'[c] # pc[c])
             => /\ device.mutex = c
                /\ \A o \in Clients \ {c} : ~InBranch(o)
       /\ (main # "device_init" /\ DeviceData(device') # DeviceData(device))
          => \E c \in Clients :
                /\ device.mutex = c
                /\ InBranch(c)
                /\ pc'[c] # pc[c]]_vars

\* one handler between the two halves of its DATA while the other waits for
\* the mutex
C12_Witness ==
    \E c \in Clients : \E o \in Clients \ {c} :
        /\ pc[c] = "data_size"
        /\ device.mutex = c
        /\ pc[o] = "lock"

C14_HandlersSurviveShutdown ==
    [][\A c \in Clients :
          (sig \in TermSignals /\ pc[c] = "recv")
          => pc'[c] \in {"recv", "lock", "close"}]_vars

(* C15: a SET_ACCESS line with the argument read-only or read-write sets     *)
(* access_level to that mode and is answered ACCESS_SET with it; a           *)
(* SET_ACCESS line with no argument is answered with the invalid-access-     *)
(* level error and leaves the device as it was.                              *)
C15_SetAccess ==
    [][\A c \in Clients :
          BranchStep(c, KW_SET_ACCESS)
          => CASE lastLine[c] = "SET_RO" ->
                    /\ device'.access_level = 0
                    /\ last'[c] = Resp("ACCESS_SET", STR_READ_ONLY, <<>>)
               [] lastLine[c] = "SET_RW" ->
                    /\ device'.access_level = 1
                    /\ last'[c] = Resp("ACCESS_SET", STR_READ_WRITE, <<>>)
               [] OTHER ->
                    /\ last'[c] = Resp("ERR_ACCESS", <<>>, <<>>)
                    /\ device' = device]_vars

(* C16: no handler thread exists before device_init has run, and a STATUS    *)
(* that is the first line any client has sent is answered with the length of *)
(* the welcome message (> 0), reads=0, writes=0, access=read-write.          *)
C16_InitialState ==
    [][/\ \A c \in Clients : pc'[c] # "closed" => main' # "device_init"
       /\ \A c \in Clients :
             (pc[c] = "status_rest" /\ pc'[c] # pc[c] /\ TotalSent = 1)
             => /\ last'[c] = Resp("STATUS", STR_READ_WRITE,
                                   <<Len(WELCOME), 0, 0>>)
                /\ last'[c].nums[1] > 0]_vars

\* the first line sent to the server is STATUS, and it has been answered
C16_Witness ==
    \E c \in Clients :
        /\ TotalSent = 1
        /\ lastLine[c] = "STATUS"
        /\ nresp[c] = 1
        /\ last[c].kind = "STATUS"
        /\ last[c].nums = <<device.buffer_size, 0, 0>>

(* C17: in every reachable state 0 <= buffer_size <= DEVICE_BUFFER_SIZE, and *)
(* what has been written of the buffer array lies inside the array.          *)
C17_BufferSizeBounded ==
    /\ device.buffer_size \in 0..DEVICE_BUFFER_SIZE
    /\ Len(device.buffer) <= DEVICE_BUFFER_SIZE

\* the over-long DATA line written over the welcome message
C17_Witness ==
    \E c \in Clients :
        /\ lastLine[c] = "DATA_LONG"
        /\ last[c].kind = "WRITTEN"
        /\ device.buffer_size > Len(WELCOME)
        /\ device.buffer_size + Len(WELCOME) > DEVICE_BUFFER_SIZE

ErrorKinds == {"ERR_FORMAT", "ERR_UNKNOWN", "ERR_ACCESS", "ERR_READONLY"}

(* C18: a step that answers a protocol error (malformed line, unknown        *)
(* keyword, invalid SET_ACCESS argument, read-only denial) leaves the device *)
(* data and every other connection as they were and keeps its own connection *)
(* in the loop: the handler goes on to unlock and to its next recv.          *)
C18_ErrorsAreLocal ==
    [][\A c \in Clients :
          /\ (Answers(c) /\ last'[c].kind \in ErrorKinds)
             => /\ pc'[c] \in {"recv", "unlock"}
                /\ DeviceData(device') = DeviceData(device)
                /\ \A o \in Clients \ {c} :
                      /\ pc'[o] = pc[o]
                      /\ last'[o] = last[o]
                      /\ nresp'[o] = nresp[o]
                      /\ chan'[o] = chan[o]
                      /\ command'[o] = command[o]
                      /\ argument'[o] = argument[o]
          /\ (pc[c] = "unlock" /\ last[c].kind \in ErrorKinds
                             /\ pc'[c] # pc[c])
             => pc'[c] = "recv"]_vars

\* a client whose first line was answered with an error has its second line,
\* a READ, dispatched
C18_Witness ==
    \E c \in Clients :
        /\ nsent[c] = 2
        /\ nresp[c] = 1
        /\ last[c].kind \in ErrorKinds
        /\ pc[c] = "branch"
        /\ command[c] = KW_READ

(* C19: the step in which pthread_create fails for an accepted connection    *)
(* starts no handler for it, leaves main in its accept loop with the         *)
(* listening socket open, and leaves the device and every other connection   *)
(* as they were.                                                             *)
C19_SpawnFailure ==
    [][\A c \in Clients :
          (c \in dropped' /\ c \notin dropped)
          => /\ main' = "accept"
             /\ listen_fd' = "open"
             /\ path' = "bound"
             /\ pc' = pc
             /\ pc[c] = "closed"
             /\ device' = device]_vars

\* the client whose first connection was dropped has connected again and
\* has been answered
C19_Witness ==
    \E c \in Clients :
        /\ c \in dropped
        /\ nresp[c] > 0
        /\ main = "accept"

(* C20: the buffer_size, reads, writes and access values of a STATUS answer  *)
(* are those of the device in the state in which the answer is written: the  *)
(* device does not change between the loads of the fields.                   *)
C20_StatusSnapshot ==
    [][\A c \in Clients :
          /\ pc'[c] = "status_rest"
             => status'[c] = <<device'.buffer_size, device'.read_count>>
          /\ (pc[c] = "status_rest" /\ Answers(c))
             => last'[c] =
                   Resp("STATUS",
                        IF device.access_level # 0
                        THEN STR_READ_WRITE ELSE STR_READ_ONLY,
                        <<device.buffer_size, device.read_count,
                          device.write_count>>)]_vars

\* a STATUS between its loads while the other client's DATA waits for the
\* mutex
C20_Witness ==
    \E c \in Clients : \E o \in Clients \ {c} :
        /\ pc[c] = "status_rest"
        /\ pc[o] = "lock"
        /\ command[o] = KW_DATA

(* C21: the argument a DATA or SET_ACCESS branch works with is empty when    *)
(* the line it was parsed from carries no argument: it is never what an      *)
(* earlier request left behind.                                              *)
C21_NoCrossRequestState ==
    \A c \in Clients :
        ( /\ pc[c] = "branch"
          /\ command[c] \in {KW_DATA, KW_SET_ACCESS}
          /\ lastLine[c] \in {"DATA_NOARG", "SET_NOARG"} )
        => argument[c] = <<>>

\* the next step of handler c, which owns the mutex, is a send_response
AtSend(c) ==
    \/ pc[c] \in {"data_size", "status_rest"}
    \/ /\ pc[c] = "branch"
       /\ command[c] # KW_STATUS
       /\ ~(command[c] = KW_DATA /\ device.access_level # 0)

(* C22: no handler waits for device.mutex while the handler that owns it is  *)
(* blocked in a send to a client that has stopped reading.                   *)
C22_NoBlockingUnderLock ==
    \A c \in Clients : \A o \in Clients \ {c} :
        ~( /\ device.mutex = c
           /\ AtSend(c)
           /\ SendBlocked(c)
           /\ pc[o] = "lock" )

(* C23: the step that processes a READ changes nothing of the device but     *)
(* read_count, which grows by one: buffer, buffer_size, access_level and     *)
(* write_count stay, in both access modes, empty buffer or not.              *)
C23_ReadFrame ==
    [][\A c \in Clients :
          BranchStep(c, KW_READ)
          => device' = [device EXCEPT !.read_count = @ + 1]]_vars

\* a READ answered with the content while the device is read-only
C23_Witness ==
    \E c \in Clients :
        /\ pc[c] = "unlock"
        /\ command[c] = KW_READ
        /\ device.access_level = 0
        /\ device.read_count = 1
        /\ last[c] = Resp("DATA", WELCOME, <<>>)
        /\ device.buffer_size = Len(WELCOME)

(* C24: the recv of a line that is only its \n (one byte) is answered with   *)
(* the invalid-format error, leaves the device as it was, leaves the handler *)
(* in its loop, and stores to no byte outside the handler's buf[].           *)
C24_NoKeywordLine ==
    [][\A c \in Clients :
          ( /\ pc[c] = "recv"
            /\ lastLine[c] = "EMPTY"
            /\ chan'[c] # chan[c]
            /\ chan'[c] = <<>> )
          => /\ Answers(c)
             /\ last'[c].kind = "ERR_FORMAT"
             /\ device' = device
             /\ pc'[c] = "recv"
             /\ outside' = outside]_vars

(* C25: when no termination signal has been sent, a handler whose peer has   *)
(* closed is never ended in another way than by leaving its loop: it does    *)
(* not enter on_signal and is not ended with the process; it does not own    *)
(* device.mutex when it closes its channel, and it closes it once.           *)
C25_OrderlyClose ==
    [][\A c \in Clients :
          (peer[c] = "closed" /\ pc[c] # "closed" /\ sig' \notin TermSignals)
          => /\ pc'[c] \notin {"on_signal", "exited"}
             /\ pc'[c] \in {"close", "done"} => device'.mutex # c
             /\ pc[c] = "done" => pc'[c] = "done"]_vars

(* C26: in mutex.c var1 = var2 whenever no thread owns the mutex, and the    *)
(* two totals main prints after joining all threads are equal.               *)
C26_MutexTotalsEqual ==
    /\ mtx.mutex = NoOwner => mtx.var1 = mtx.var2
    /\ mtx.printed # <<>> => mtx.printed[1] = mtx.printed[2]

\* main has printed the totals after every thread has run its rounds
C26_Witness ==
    /\ mtx.main = "exit"
    /\ mtx.printed = <<mtx.var1, mtx.var2>>
    /\ mtx.var1 = MaxUpdaters * MaxRounds * MaxInner
    /\ \A t \in Updaters : mtx.pc[t] = "returned"

C28_ShutdownTerminates ==
    /\ [](\A t \in Workers : pcs.pc[t] = "returned" => pcs.mutex # t)
    /\ (pcs.shutdown = 1) ~>
         (/\ \A t \in Workers : pcs.pc[t] = "returned"
          /\ pcs.mutex = "none"
          /\ pcs.main = "returned")

\* main has returned after a broadcast that found a thread waiting
C28_Witness ==
    /\ pcs.main = "returned"
    /\ pcs.bcast # {}
    /\ \A t \in Workers : pcs.pc[t] = "returned"
    /\ pcs.mutex = "none"

====
